---- MODULE Spec2Model ----
(***************************************************************************)
(* The plant engine of Florodoro (src/florodoro/__init__.py): the Plant    *)
(* hierarchy (Flower, CircularFlower, Tree, OrangeTree, GreenTree,         *)
(* DoubleGreenTree), its generation step and its draw step, driven by a    *)
(* client that calls the public methods in any order.                      *)
(*                                                                         *)
(* Numbers.  Python floats are modelled as fixed-point integers in         *)
(* thousandths: 1.0 is 1000, a length of 200 pixels is 200000.  Products   *)
(* and quotients truncate toward zero, so x * 0 = 0 and (-a) * b = -(a*b)  *)
(* hold exactly as they do for floats.                                     *)
(*                                                                         *)
(* Randomness.  The module-level generator of `random` is a pseudo-random  *)
(* stream: the values one generate() call draws are a function of the      *)
(* generator state on entry.  That state is unknown, so each generate()    *)
(* picks it from Seeds; U(seed, k) is the k-th value of random() of the    *)
(* stream.                                                                 *)
(*                                                                         *)
(* An attribute that Python has not assigned yet (or that holds None) is   *)
(* the empty sequence <<>>; an assigned attribute v is <<v>>.              *)
(***************************************************************************)
EXTENDS Integers, Sequences, FiniteSets

VARIABLES cls, self, call, painted, svg, app, phases

vars == <<cls, self, call, painted, svg, app, phases>>

\* ------------------------------------------------------------- bounds

\* number of generator states a generate() call may start from
NumSeeds == 5

Seeds == 0 .. (NumSeeds - 1)

\* values a client passes to set_current_age / set_max_age (1000 = 1.0);
\* 2000 lies outside the documented range [0, 1]; 250 is a point
\* where the smoothing curve differs from the identity
AgeValues == {0, 250, 1000, 2000}

MaxAgeValues == {500, 1000, 2000}

\* canvas sizes <<width, height>> in pixels passed to draw / save
Sizes == {<<200, 200>>, <<200, 800>>, <<300, -100>>}

\* ------------------------------------------------------------ numbers

None == <<>>

Some(v) == <<v>>

Val(o) == o[1]

Abs(a) == IF a >= 0 THEN a ELSE -a

\* a / b, truncated toward zero
Div(a, b) ==
    IF (a >= 0) = (b >= 0) THEN Abs(a) \div Abs(b) ELSE -(Abs(a) \div Abs(b))

\* a * b of two fixed-point numbers
Mul(a, b) == Div(a * b, 1000)

Min(a, b) == IF a <= b THEN a ELSE b

\* math.sin: argument in 1/10000 rad reduced to [-pi/2, pi/2]
SinReduce(r) ==
    LET m0 == r % 62832
        m  == IF m0 > 31416 THEN m0 - 62832 ELSE m0
    IN  IF m > 15708 THEN 31416 - m
        ELSE IF m < -15708 THEN -31416 - m
        ELSE m

\* math.sin: Taylor series to the 9th power on [-pi/2, pi/2], in 1/10000,
\* r2 = r * r; evaluated innermost term first
SinSeries(r, r2) ==
    LET h4 == 10000 - Div(r2, 72)
        h3 == 10000 - Div(Div(r2 * h4, 10000), 42)
        h2 == 10000 - Div(Div(r2 * h3, 10000), 20)
        h1 == 10000 - Div(Div(r2 * h2, 10000), 6)
    IN  Div(r * h1, 10000)

\* v (in 1/10000) rounded to thousandths, half away from zero
RoundTenth(v) == IF v >= 0 THEN (v + 5) \div 10 ELSE -((5 - v) \div 10)

SinReduced(r) == RoundTenth(SinSeries(r, Div(r * r, 10000)))

\* math.sin of r (thousandths of a radian), in thousandths
sin(r) == SinReduced(SinReduce(r * 10))

\* math.acos on the band [0.4, 0.6] the code samples: series around 0.5
acos(c) ==
    LET d == c - 500
    IN  1047 - Mul(d, 1155) - Mul(Mul(d, d), 385)

\* math.degrees: radians to degrees (both in thousandths)
degrees(r) == Div(r * 180000, 3142)

\* Python round(): to the nearest integer, ties to the even one
round(x) ==
    LET f == x \div 1000
        m == x % 1000
    IN  IF m < 500 THEN f
        ELSE IF m > 500 THEN f + 1
        ELSE IF f % 2 = 0 THEN f ELSE f + 1

smoothen_curve(x) == Div(sin(Mul(x - 500, 3142)) + 1000, 2)

\* ------------------------------------------------------------- random

\* random.random(): the k-th value in [0, 1) of the stream started at seed
U(seed, k) ==
    ((seed * 137 + 173) * (2 * k + 7) + k * k * 311 + seed * seed * 97) % 1000

\* random.uniform(a, b) = a + (b - a) * random()
uniform(a, b, u) == a + Mul(b - a, u)

\* random.randint(a, b)
randint(a, b, u) == a + ((b - a + 1) * u) \div 1000

\* random.choice(seq)
choice(seq, u) == seq[1 + (Len(seq) * u) \div 1000]

\* ---------------------------------------------------------- the plant

PLANTS == {"GreenTree", "DoubleGreenTree", "OrangeTree", "CircularFlower"}

\* the classes that derive from Tree (Tree included)
IsTree(c) == c \in {"Tree", "OrangeTree", "GreenTree", "DoubleGreenTree"}

green_color == <<0, 119, 0>>

white_color == <<255, 255, 255>>

brown_color == <<77, 51, 0>>

orange_color == <<243, 148, 30>>

colors == << <<139, 139, 255>>, <<72, 178, 173>>, <<255, 85, 85>>,
             <<238, 168, 43>>, <<226, 104, 155>> >>

\* a freshly constructed plant: the class attributes age = 0, maxAge = None,
\* and no instance attribute yet
NewPlant ==
    [ age |-> 0, maxAge |-> None,
      age_coefficient |-> None, deficit_coefficient |-> None,
      x_coefficient |-> None, leafs |-> None, stem_width |-> None,
      x |-> None, y |-> None,
      color |-> None, number_of_pellets |-> None,
      center_pellet_smaller_coefficient |-> None,
      pellet_drawing_function |-> None,
      branches |-> None, branch_circles |-> None ]

\* set_current_age as it would be if it also dropped the head position
\* cached by the last draw
set_current_age_Invalidates(p, age) ==
    [p EXCEPT !.age = age, !.x = None, !.y = None]

set_current_age(p, age) == [p EXCEPT !.age = age]

get_adjusted_age(p) == Mul(p.age, p.age)

\* Plant.generate; raises TypeError when maxAge is None (None + 1)
Plant_generate(p, seed) ==
    [p EXCEPT !.age_coefficient = Some(Div(Val(p.maxAge) + 1000, 2)),
              !.deficit_coefficient = Some(uniform(900, 1000, U(seed, 0)))]

\* the sign expression shared by generateLeafs and generateBranches:
\* ((i - 1/2) * 2) if count == 2 else (-1 if random() < 0.5 else 1), i from 0
Orientation(i, count, u) ==
    IF count = 2 THEN (i * 1000 - 500) * 2
    ELSE IF u < 500 THEN -1000 ELSE 1000

\* random() calls one list element of generateLeafs / generateBranches makes
Stride(count) == IF count = 2 THEN 2 ELSE 3

\* Flower.generateLeafs: <<position, size coefficient, rotation>> per leaf;
\* k0 is the index of the first random value it draws
generateLeafs(p, count, seed, k0) ==
    LET dc == Val(p.deficit_coefficient)
        k(i) == k0 + Stride(count) * (i - 1)
    IN  [p EXCEPT !.leafs = Some(
            [i \in 1 .. count |->
                << uniform(Mul(dc, 250), Mul(dc, 400), U(seed, k(i))),
                   uniform(900, 1100, U(seed, k(i) + 1)),
                   Orientation(i - 1, count, U(seed, k(i) + 2)) >>])]

Flower_generate(p, seed) ==
    LET p1 == Plant_generate(p, seed)
        x_coefficient ==
            uniform(400, 1000, U(seed, 1)) * (IF U(seed, 2) < 500 THEN -1 ELSE 1)
        p2 == generateLeafs([p1 EXCEPT !.x_coefficient = Some(x_coefficient)],
                            2, seed, 3)
    IN  [p2 EXCEPT !.stem_width =
            Some(Mul(uniform(3500, 4000, U(seed, 7)), Val(p1.age_coefficient)))]

\* the count randint(5, 7) samples before the silhouette is chosen
SampledPellets(seed) == randint(5, 7, U(seed, 9))

\* CircularFlower.generate without the final `if` that forces 5 pellets
CircularFlower_generate_Unforced(p, seed) ==
    [Flower_generate(p, seed) EXCEPT
        !.color = Some(choice(colors, U(seed, 8))),
        !.center_pellet_smaller_coefficient = Some(uniform(750, 850, U(seed, 10))),
        !.pellet_drawing_function =
            Some(choice(<<"circular_pellet", "triangle_pellet",
                          "dip_pellet", "round_pellet">>, U(seed, 11))),
        !.number_of_pellets = Some(SampledPellets(seed))]

CircularFlower_generate(p, seed) ==
    LET p1 == Flower_generate(p, seed)
        fn == choice(<<"circular_pellet", "triangle_pellet",
                       "dip_pellet", "round_pellet">>, U(seed, 11))
    IN  [p1 EXCEPT
            !.color = Some(choice(colors, U(seed, 8))),
            !.center_pellet_smaller_coefficient =
                Some(uniform(750, 850, U(seed, 10))),
            !.pellet_drawing_function = Some(fn),
            !.number_of_pellets =
                Some(IF fn \in {"dip_pellet", "round_pellet"}
                     THEN 5 ELSE SampledPellets(seed))]

\* Tree.generateBranches: <<position up the trunk, rotation>> per branch
generateBranches(p, count, seed, k0) ==
    LET dc == Val(p.deficit_coefficient)
        k(i) == k0 + Stride(count) * (i - 1)
        ka(i) == k(i) + Stride(count) - 1
    IN  [p EXCEPT !.branches = Some(
            [i \in 1 .. count |->
                << uniform(Mul(dc, 450), Mul(dc, 550), U(seed, k(i))),
                   Mul(Orientation(i - 1, count, U(seed, k(i) + 1)),
                       acos(uniform(400, 600, U(seed, ka(i))))) >>])]

\* the branch count as it would be sampled from 0: round(uniform(0, 2 * age_coefficient))
SampledBranches_FromZero(age_coefficient, seed) ==
    round(uniform(0, 2 * age_coefficient, U(seed, 1)))

\* the branch count Tree.generate samples: round(uniform(1, 2 * age_coefficient))
SampledBranches(age_coefficient, seed) ==
    round(uniform(1000, 2 * age_coefficient, U(seed, 1)))

Tree_generate(p, seed) ==
    LET p1 == Plant_generate(p, seed)
    IN  generateBranches(p1, SampledBranches(Val(p1.age_coefficient), seed), seed, 2)

\* the tail of OrangeTree.generate: one <<size, position>> per branch and
\* one more for the trunk apex; k0 is the index of its first random value
generateCircles(p, seed, k0) ==
    [p EXCEPT !.branch_circles = Some(
        [i \in 1 .. (Len(Val(p.branches)) + 1) |->
            << uniform(Mul(Val(p.deficit_coefficient), 300),
                       Mul(Val(p.deficit_coefficient), 370), U(seed, k0 + 2 * (i - 1))),
               uniform(Mul(Val(p.deficit_coefficient), 900),
                       Val(p.deficit_coefficient), U(seed, k0 + 2 * (i - 1) + 1)) >>])]

\* the number of random values Tree.generate has drawn when it returns p
DrawnByTree(p) == 2 + Stride(Len(Val(p.branches))) * Len(Val(p.branches))

\* OrangeTree.generate without the generateBranches(2) that forces 2 branches
OrangeTree_generate_Unforced(p, seed) ==
    generateCircles(Tree_generate(p, seed), seed,
                    DrawnByTree(Tree_generate(p, seed)))

OrangeTree_generate(p, seed) ==
    generateCircles(
        generateBranches(Tree_generate(p, seed), 2, seed,
                         DrawnByTree(Tree_generate(p, seed))),
        seed, DrawnByTree(Tree_generate(p, seed)) + 4)

\* GreenTree.generate and DoubleGreenTree.generate only bind lambdas over
\* self (green_width, green_height, offset, second_green_*), modelled by
\* the operators of the same names below
GreenTree_generate(p, seed) == Tree_generate(p, seed)

DoubleGreenTree_generate(p, seed) == GreenTree_generate(p, seed)

\* self.generate(): dispatch on the class of the instance
generate(c, p, seed) ==
    CASE c = "Flower"          -> Flower_generate(p, seed)
      [] c = "CircularFlower"  -> CircularFlower_generate(p, seed)
      [] c = "Tree"            -> Tree_generate(p, seed)
      [] c = "OrangeTree"      -> OrangeTree_generate(p, seed)
      [] c = "GreenTree"       -> GreenTree_generate(p, seed)
      [] c = "DoubleGreenTree" -> DoubleGreenTree_generate(p, seed)

\* set_max_age as it would be if it kept the plant when the value is the
\* one already stored
set_max_age_SkipsSame(c, p, maxAge, seed) ==
    IF p.maxAge = Some(maxAge)
      THEN p
      ELSE generate(c, [p EXCEPT !.maxAge = Some(maxAge)], seed)

set_max_age(c, p, maxAge, seed) ==
    generate(c, [p EXCEPT !.maxAge = Some(maxAge)], seed)

\* ------------------------------------------------------------ drawing

\* one call on the QPainter (or on the QPainterPath being built), with its
\* numeric arguments in thousandths
Op(name, args) == [op |-> name, a |-> args]

RECURSIVE Concat(_)
\* the concatenation of a sequence of sequences (a loop body run per item)
Concat(seqs) ==
    IF seqs = <<>> THEN <<>> ELSE Head(seqs) \o Concat(Tail(seqs))

\* what a _draw returns: the instance as it leaves it, and the calls made
Drawn(p, ops) == [self |-> p, painted |-> ops]

\* calls made before delegating to another _draw, whose result is d
Before(ops, d) == Drawn(d.self, ops \o d.painted)

\* the lambdas bound by the generate methods
x_position(p, width) == Mul(Div(width, 9), Val(p.x_coefficient))

y_position(p, height) ==
    Mul(Mul(Div(height * 10, 25), Val(p.deficit_coefficient)), Val(p.age_coefficient))

leaf_size(p, width) ==
    Mul(Mul(Div(width, 7), Val(p.deficit_coefficient)), Val(p.age_coefficient))

pellet_size(p, width) ==
    Mul(Mul(Div(width, 9), Val(p.deficit_coefficient)), Val(p.age_coefficient))

base_width(p, width) ==
    Mul(Mul(Div(width, 15), Val(p.deficit_coefficient)), Val(p.age_coefficient))

base_height(p, height) ==
    Mul(Mul(Div(height * 10, 17), Val(p.deficit_coefficient)), Val(p.age_coefficient))

branch_width(p, width) ==
    Mul(Mul(Div(width, 18), Val(p.deficit_coefficient)), Val(p.age_coefficient))

branch_height(p, height) ==
    Mul(Mul(Div(height * 10, 27), Val(p.deficit_coefficient)), Val(p.age_coefficient))

green_width(p, width) ==
    Mul(Mul(Div(width * 10, 32), Val(p.deficit_coefficient)), Val(p.age_coefficient))

green_height(p, height) ==
    Mul(Mul(Div(height * 10, 15), Val(p.deficit_coefficient)), Val(p.age_coefficient))

\* offset as it would be if the canopy sat at 0.3 of the full trunk whatever
\* the age
offset_Ungrown(p, height) ==
    Min(Mul(height, 950), base_height(p, Mul(height, 300)))

offset(p, height) ==
    Min(Mul(height, 950),
        base_height(p, Mul(Mul(height, 300), smoothen_curve(p.age))))

second_green_width(p, width) ==
    Mul(Mul(Div(width * 10, 35), Val(p.deficit_coefficient)), Val(p.age_coefficient))

second_green_height(p, height) ==
    Mul(Mul(Div(height * 10, 24), Val(p.deficit_coefficient)), Val(p.age_coefficient))

\* QPainterPath.pointAtPercent on the stem, a quadratic curve from the
\* origin with control point (cx, cy) and end point (ex, ey); the curve
\* parameter stands for the fraction of its length
pointAtPercent(cx, cy, ex, ey, t) ==
    LET tt == Mul(t, t)
        ct == 2 * Mul(1000 - t, t)
    IN  << Mul(ct, cx) + Mul(tt, ex), Mul(ct, cy) + Mul(tt, ey) >>

\* the body of the leaf loop of Flower._draw for one leaf
\* <<position, coefficient, rotation>>, ls the size of the leaf
LeafOps(position, rotation, x, y, ls) ==
        << Op("save", <<>>),
           Op("translate", pointAtPercent(0, Mul(y, 600), x, y, Mul(position, 1000))),
           Op("rotate", <<degrees(rotation)>>) >>
        \o (IF y # 0
              THEN << Op("rotate", << -degrees(sin(Div(x * 1000, y))) >>) >>
              ELSE <<>>)
        \o (IF rotation < 0 THEN << Op("scale", <<-1000, 1000>>) >> ELSE <<>>)
        \o << Op("setBrush", green_color),
              Op("setPen", <<>>),
              Op("QPainterPath", <<>>),
              Op("setFillRule", <<>>),
              Op("quadTo", <<Mul(400, ls), Mul(500, ls), 0, ls>>),
              Op("cubicTo", <<0, Mul(500, ls), -Mul(400, ls), Mul(400, ls), 0, 0>>),
              Op("drawPath", <<>>),
              Op("restore", <<>>) >>

\* the size ls of a leaf with size coefficient `coefficient`
LeafSize(p, width, s, coefficient) ==
    Mul(Mul(leaf_size(p, width), Mul(s, s)), coefficient)

\* the calls Flower._draw makes: the stem to (x, y), then the leafs; s is
\* smoothen_curve(self.age)
StemOps(p, x, y, s, width) ==
          << Op("setPen", green_color \o <<Mul(Val(p.stem_width), s)>>),
             Op("QPainterPath", <<>>),
             Op("quadTo", <<0, Mul(y, 600), x, y>>),
             Op("drawPath", <<>>) >>
          \o Concat([i \in 1 .. Len(Val(p.leafs)) |->
                        LeafOps(Val(p.leafs)[i][1], Val(p.leafs)[i][3], x, y,
                                LeafSize(p, width, s, Val(p.leafs)[i][2]))])

\* the assignments of Flower._draw as they would be if the pen width scaled
\* by the age were stored back into self.stem_width
StemAssigns_StoresPenWidth(p, x, y, s) ==
    [p EXCEPT !.x = Some(x), !.y = Some(y),
              !.stem_width = Some(Mul(Val(p.stem_width), s))]

\* the assignments of Flower._draw: self.x = x and self.y = y
StemAssigns(p, x, y, s) == [p EXCEPT !.x = Some(x), !.y = Some(y)]

\* Flower._draw with x, y the head position and s = smoothen_curve(self.age)
StemDraw(p, x, y, s, width) ==
    Drawn(StemAssigns(p, x, y, s), StemOps(p, x, y, s, width))

\* Flower._draw: assigns self.x and self.y, then draws the stem and the leafs
Flower_draw(p, width, height) ==
    StemDraw(p, Mul(x_position(p, width), smoothen_curve(p.age)),
                Mul(y_position(p, height), smoothen_curve(p.age)),
                smoothen_curve(p.age), width)

triangle_pellet(size) ==
    LET scaled == Mul(size, 1500)
    IN  << Op("QPainterPath", <<>>),
           Op("setFillRule", <<>>),
           Op("quadTo", <<Mul(900, scaled), Mul(500, scaled), 0, scaled>>),
           Op("quadTo", <<Mul(-500, scaled), Mul(400, scaled), 0, 0>>),
           Op("drawPath", <<>>) >>

circular_pellet(size) ==
    << Op("drawEllipse(QRectF)", <<0, 0, size, size>>) >>

round_pellet(size) ==
    LET scaled == Mul(size, 1300)
    IN  << Op("QPainterPath", <<>>), Op("setFillRule", <<>>) >>
        \o [i \in 1 .. 2 |->
               LET c == IF i = 1 THEN 1 ELSE -1
               IN  Op("quadTo", << Mul(c * scaled, 800), Mul(scaled, 900),
                                   0, IF c # -1 THEN scaled ELSE 0 >>)]
        \o << Op("drawPath", <<>>) >>

dip_pellet(size) ==
    LET scaled == Mul(size, 1200)
    IN  << Op("QPainterPath", <<>>), Op("setFillRule", <<>>) >>
        \o [i \in 1 .. 2 |->
               LET c == IF i = 1 THEN 1 ELSE -1
               IN  Op("quadTo", << c * scaled, Mul(scaled, 1400),
                                   0, IF c # -1 THEN scaled ELSE 0 >>)]
        \o << Op("drawPath", <<>>) >>

\* self.pellet_drawing_function(painter, pellet_size)
pellet_drawing_function(p, size) ==
    CASE Val(p.pellet_drawing_function) = "circular_pellet" -> circular_pellet(size)
      [] Val(p.pellet_drawing_function) = "triangle_pellet" -> triangle_pellet(size)
      [] Val(p.pellet_drawing_function) = "dip_pellet"      -> dip_pellet(size)
      [] Val(p.pellet_drawing_function) = "round_pellet"    -> round_pellet(size)

\* the position as it would be if CircularFlower._draw read self.x, self.y
\* before calling super()._draw (the origin when never assigned)
FlowerHead_Stale(p, q) ==
    IF p.x = None THEN <<0, 0>> ELSE <<Val(p.x), Val(p.y)>>

\* the position CircularFlower._draw translates to: self.x, self.y as
\* Flower._draw (q = the instance after super()._draw) has just assigned them
FlowerHead(p, q) == <<Val(q.x), Val(q.y)>>

\* the pellet loop and the white centre of CircularFlower._draw;
\* size is pellet_size as scaled by the age, n the number of pellets
PelletOps(q, size, n, center) ==
    Concat([i \in 1 .. n |->
               pellet_drawing_function(q, size)
               \o << Op("rotate", <<Div(360000, n)>>) >>])
    \o << Op("setBrush", white_color),
          Op("drawEllipse(QRectF)",
             << Div(-center, 2), Div(-center, 2), center, center >>),
          Op("restore", <<>>) >>

\* CircularFlower._draw after super()._draw returned d: p is the instance
\* as it was on entry, d.self as Flower._draw left it
FlowerHeadOps(p, d, size) ==
    Drawn(d.self,
          d.painted
          \o << Op("save", <<>>),
                Op("translate", FlowerHead(p, d.self)),
                Op("setPen", <<>>),
                Op("setBrush", Val(d.self.color)) >>
          \o PelletOps(d.self, size, Val(d.self.number_of_pellets),
                       Mul(size, Val(d.self.center_pellet_smaller_coefficient))))

CircularFlower_draw(p, width, height) ==
    FlowerHeadOps(p, Flower_draw(p, width, height),
                  Mul(pellet_size(p, width), smoothen_curve(p.age)))

\* the body of the branch loop of Tree._draw for one branch <<h, rotation>>;
\* s is smoothen_curve(self.age), a is smoothen_curve(self.get_adjusted_age())
BranchOps(p, h, rotation, s, a, width, height) ==
        << Op("save", <<>>),
           Op("translate", <<0, base_height(p, Mul(Mul(height, h), s))>>),
           Op("rotate", <<degrees(rotation)>>),
           Op("drawPolygon",
              << Mul(Mul(-branch_width(p, width), a), 1000 - h), 0,
                 Mul(Mul(branch_width(p, width), a), 1000 - h), 0,
                 0, Mul(Mul(branch_height(p, height), a), 1000 - h) >>),
           Op("restore", <<>>) >>

\* Tree._draw: the trunk, then the branches
TrunkOps(p, s, a, width, height) ==
    Drawn(p,
          << Op("setBrush", brown_color),
             Op("drawPolygon",
                << Mul(-base_width(p, width), s), 0,
                   Mul(base_width(p, width), s), 0,
                   0, Mul(base_height(p, height), s) >>) >>
          \o Concat([i \in 1 .. Len(Val(p.branches)) |->
                        BranchOps(p, Val(p.branches)[i][1], Val(p.branches)[i][2],
                                  s, a, width, height)]))

Tree_draw(p, width, height) ==
    TrunkOps(p, smoothen_curve(p.age), smoothen_curve(get_adjusted_age(p)),
             width, height)

\* the radius r of a fruit: circle is its <<size, position>> entry of
\* branch_circles, h the position of the branch
FruitRadius(p, circle, h, a, width, height) ==
    Mul(Mul(Mul(Mul(Div(width + height, 2), circle[1]), a), 1000 - h),
        Val(p.age_coefficient))

\* the body of the fruit loop of OrangeTree._draw for branch <<h, rotation>>
\* and its entry circle of branch_circles
FruitOps(p, h, rotation, circle, s, a, width, height) ==
    << Op("save", <<>>),
       Op("translate", <<0, base_height(p, Mul(Mul(height, h), s))>>),
       Op("rotate", <<degrees(rotation)>>),
       Op("setBrush", orange_color),
       Op("drawEllipse(QPointF)",
          << 0,
             Mul(Mul(Mul(branch_height(p, height), a), 1000 - h), circle[2]),
             FruitRadius(p, circle, h, a, width, height),
             FruitRadius(p, circle, h, a, width, height) >>),
       Op("restore", <<>>) >>

\* the fruit on the trunk apex, branch_circles[-1], sized with the h the
\* loop left behind (the last branch's) and made 1.3 times larger
ApexOps(p, h, circle, s, a, width, height) ==
    << Op("drawEllipse(QPointF)",
          << 0,
             Mul(Mul(base_height(p, height), s), circle[2]),
             Mul(FruitRadius(p, circle, h, a, width, height), 1300),
             Mul(FruitRadius(p, circle, h, a, width, height), 1300) >>) >>

OrangeOps(p, s, a, width, height) ==
    << Op("setPen", <<>>), Op("setBrush", orange_color) >>
    \o Concat([i \in 1 .. Len(Val(p.branches)) |->
                  FruitOps(p, Val(p.branches)[i][1], Val(p.branches)[i][2],
                           Val(p.branch_circles)[i], s, a, width, height)])
    \o ApexOps(p, Val(p.branches)[Len(Val(p.branches))][1],
               Val(p.branch_circles)[Len(Val(p.branch_circles))],
               s, a, width, height)

\* OrangeTree._draw: the fruit on each branch, the fruit on the trunk apex,
\* then Tree._draw
OrangeTree_draw(p, width, height) ==
    Before(OrangeOps(p, smoothen_curve(p.age),
                     smoothen_curve(get_adjusted_age(p)), width, height),
           Tree_draw(p, width, height))

\* the canopy of GreenTree._draw; s is smoothen_curve(self.age), off is
\* self.offset(height)
CanopyOps(p, s, off, width, height) ==
    << Op("setPen", <<>>),
       Op("setBrush", green_color),
       Op("drawPolygon",
          << Mul(-green_width(p, width), s), off,
             Mul(green_width(p, width), s), off,
             0, Mul(green_height(p, height), s) + off >>) >>

\* GreenTree._draw: the canopy, then Tree._draw
GreenTree_draw(p, width, height) ==
    Before(CanopyOps(p, smoothen_curve(p.age), offset(p, height), width, height),
           Tree_draw(p, width, height))

\* the second canopy of DoubleGreenTree._draw; off is offset + second_offset
SecondCanopyOps(p, s, off, width, height) ==
    << Op("setPen", <<>>),
       Op("setBrush", green_color),
       Op("drawPolygon",
          << Mul(-second_green_width(p, width), Mul(s, s)), off,
             Mul(second_green_width(p, width), Mul(s, s)), off,
             0,
             Min(Mul(second_green_height(p, height), s) + off,
                 Mul(height, 950)) >>) >>

\* DoubleGreenTree._draw as it would be with super()._draw called first
DoubleGreenTree_draw_ParentFirst(p, width, height) ==
    Drawn(p,
          GreenTree_draw(p, width, height).painted
          \o SecondCanopyOps(p, smoothen_curve(p.age),
                 base_height(p, Mul(Mul(height, 300), smoothen_curve(p.age)))
                 + Mul(green_height(p, height) - second_green_height(p, height),
                       smoothen_curve(p.age)),
                 width, height))

\* DoubleGreenTree._draw: the second canopy, then GreenTree._draw
DoubleGreenTree_draw(p, width, height) ==
    Before(SecondCanopyOps(p, smoothen_curve(p.age),
               base_height(p, Mul(Mul(height, 300), smoothen_curve(p.age)))
               + Mul(green_height(p, height) - second_green_height(p, height),
                     smoothen_curve(p.age)),
               width, height),
           GreenTree_draw(p, width, height))

\* self._draw(painter, w, h): dispatch on the class of the instance
ShapeDraw(c, p, width, height) ==
    CASE c = "Flower"          -> Flower_draw(p, width, height)
      [] c = "CircularFlower"  -> CircularFlower_draw(p, width, height)
      [] c = "Tree"            -> Tree_draw(p, width, height)
      [] c = "OrangeTree"      -> OrangeTree_draw(p, width, height)
      [] c = "GreenTree"       -> GreenTree_draw(p, width, height)
      [] c = "DoubleGreenTree" -> DoubleGreenTree_draw(p, width, height)

\* Plant.draw as it would be if it positioned the painter before looking
\* at maxAge
draw_PositionsFirst(c, p, width, height) ==
    IF p.maxAge = None
      THEN Drawn(p, << Op("translate", <<Div(width * 1000, 2), height * 1000>>),
                       Op("scale", <<1000, -1000>>) >>)
      ELSE Before(<< Op("translate", <<Div(width * 1000, 2), height * 1000>>),
                     Op("scale", <<1000, -1000>>) >>,
                  ShapeDraw(c, p, Min(width, height) * 1000,
                                  Min(width, height) * 1000))

\* Plant.draw as it would be if it handed width and height themselves to
\* _draw instead of the smaller of the two
draw_Unsquared(c, p, width, height) ==
    IF p.maxAge = None
      THEN Drawn(p, <<>>)
      ELSE Before(<< Op("translate", <<Div(width * 1000, 2), height * 1000>>),
                     Op("scale", <<1000, -1000>>) >>,
                  ShapeDraw(c, p, width * 1000, height * 1000))

\* Plant.draw(painter, width, height), width and height in pixels
draw(c, p, width, height) ==
    IF p.maxAge = None
      THEN Drawn(p, <<>>)
      ELSE Before(<< Op("translate", <<Div(width * 1000, 2), height * 1000>>),
                     Op("scale", <<1000, -1000>>) >>,
                  ShapeDraw(c, p, Min(width, height) * 1000,
                                  Min(width, height) * 1000))

\* Drawable.save(path, width, height): the QSvgGenerator's size and view
\* box, then draw on a painter over it
save(c, p, width, height) ==
    [ drawn |-> draw(c, p, width, height),
      svg |-> Some([size |-> <<width, height>>, viewBox |-> <<0, 0, width, height>>]) ]

\* ------------------------------------------------- the state machine

\* the classes the host instantiates, and their common base Tree
Classes == PLANTS \cup {"Tree"}

\* the record of the last call made on the plant: its name and arguments,
\* the generator state its generate() started from (None when it drew no
\* random value), and whether it raised
Call(name, args, rng, raised) ==
    [name |-> name, args |-> args, rng |-> rng, raised |-> raised]

\* a _draw returned d: the instance and the painter are as it left them
Returns(d) == self' = d.self /\ painted' = d.painted

\* save returned f: its draw's effect, and the file written
Saves(f) == Returns(f.drawn) /\ svg' = f.svg

\* plant = SomeClass(): a fresh instance
Init ==
    /\ cls \in Classes
    /\ self = NewPlant
    /\ call = Call("__init__", <<>>, None, FALSE)
    /\ painted = <<>>
    /\ svg = None
    /\ app = None
    /\ phases = <<>>

\* plant.set_current_age(age)
SetCurrentAge(age) ==
    /\ self' = set_current_age(self, age)
    /\ call' = Call("set_current_age", <<age>>, None, FALSE)
    /\ painted' = <<>>
    /\ svg' = None
    /\ UNCHANGED <<cls, app, phases>>

\* plant.set_max_age(maxAge)
SetMaxAge(maxAge, seed) ==
    /\ self' = set_max_age(cls, self, maxAge, seed)
    /\ call' = Call("set_max_age", <<maxAge>>, Some(seed), FALSE)
    /\ painted' = <<>>
    /\ svg' = None
    /\ UNCHANGED <<cls, app, phases>>

\* plant.generate() called directly (as Florodoro.__init__ does for the menu
\* icons); before any set_max_age, Plant.generate raises on None + 1 with
\* nothing assigned yet
Generate(seed) ==
    /\ IF self.maxAge = None
         THEN /\ self' = self
              /\ call' = Call("generate", <<>>, None, TRUE)
         ELSE /\ self' = generate(cls, self, seed)
              /\ call' = Call("generate", <<>>, Some(seed), FALSE)
    /\ painted' = <<>>
    /\ svg' = None
    /\ UNCHANGED <<cls, app, phases>>

\* plant.draw(painter, width, height) on a fresh painter
Draw(size) ==
    /\ Returns(draw(cls, self, size[1], size[2]))
    /\ call' = Call("draw", size, None, FALSE)
    /\ svg' = None
    /\ UNCHANGED <<cls, app, phases>>

\* plant.save(path, width, height)
Save(size) ==
    /\ Saves(save(cls, self, size[1], size[2]))
    /\ call' = Call("save", size, None, FALSE)
    /\ UNCHANGED <<cls, app, phases>>

Next ==
    \/ \E age \in AgeValues : SetCurrentAge(age)
    \/ \E maxAge \in MaxAgeValues, seed \in Seeds : SetMaxAge(maxAge, seed)
    \/ \E seed \in Seeds : Generate(seed)
    \/ \E size \in Sizes : Draw(size)
    \/ \E size \in Sizes : Save(size)

Spec == Init /\ [][Next]_vars

\* ---------------------------------------------------- the application
\*
\* Florodoro, the window that owns the timer and the plant.  `app` holds
\* its attributes and what the claims need of its widgets: whether each
\* button is enabled, the text of the pause button, the cycle label, and
\* the QTimer study_timer (study_timer: isActive(); timeout: its interval
\* has run out and the timeout signal is due).  cls and self are the plant
\* self.plant that the canvas holds, cls = NoPlant while canvas.object is
\* None.  The time label, the style sheets, the sounds and the pop-ups are
\* outputs that no handler reads back and are left out.
\*
\* Time.  Durations are in hundredths of a second (one minute is 6000).
\* datetime values are kept as offsets from datetime.now(): ending_time is
\* self.ending_time - now, pause_time is self.pause_time - now, and time
\* passing shifts both.  The clock is taken to run forward.  The timer's
\* interval (16 ms) is far below the steps of the model: once an interval
\* has run out the handler runs before more time passes and before the user
\* does anything.

\* the largest value of the Cycles spin box a user sets (it starts at 1)
MaxCycles == 2

\* number of generator states a study start may find
NumStarts == 1

StartSeeds == 0 .. (NumStarts - 1)

\* the longest a user stays paused, in minutes
MaxPause == 60

\* self.MAX_PLANT_AGE
MAX_PLANT_AGE == 90

\* values of the study and break spin boxes (minutes, 1 .. MAX_TIME = 180)
StudyMinutes == {45, 135}

BreakMinutes == {15}

\* how much time passes in one step: 45 minutes
Steps == {270000}

\* the size of the canvas widget when the plant is saved
CanvasSizes == {<<200, 200>>, <<200, 800>>}

\* canvas.object is None
NoPlant == "NoneType"

\* the plant classes whose check box is checked in the Plants menu, as
\* choice(possible_plants) sees them: one of them, or NoPlant when none is
Choices == PLANTS \cup {NoPlant}

\* what a handler reads from the widgets and the environment: the spin
\* boxes, the class choice(possible_plants) returns, the state of the random
\* generator, the size of the canvas
Input(study, break, spin, chosen, seed, size) ==
    [study |-> study, break |-> break, cycles |-> spin, chosen |-> chosen,
     seed |-> seed, size |-> size]

\* the attributes Florodoro.__init__ assigns before it calls reset()
Florodoro(debug) ==
    [ DEBUG |-> debug, plant_growing |-> FALSE,
      cycles |-> 1, initial_cycles |-> 1,
      study_done |-> None, total_time |-> None,
      ending_time |-> None, pause_time |-> None,
      study_timer |-> FALSE, timeout |-> FALSE,
      study_button |-> TRUE, break_button |-> TRUE,
      pause_button |-> TRUE, reset_button |-> TRUE,
      pause_text |-> "Pause", cycle_label |-> None ]

\* the application a with the plant p of class c, and what the handler
\* that returns it has painted and written
World(a, c, p) ==
    [app |-> a, cls |-> c, self |-> p, painted |-> <<>>, svg |-> None]

\* Florodoro.reset as it would be without `if button_press: self.cycles = 1`
reset_KeepsCycles(w, button_press) ==
    [w EXCEPT
        !.app = [@ EXCEPT !.study_timer = FALSE, !.timeout = FALSE,
                          !.pause_text = "Pause",
                          !.study_button = TRUE, !.break_button = TRUE,
                          !.pause_button = FALSE, !.reset_button = FALSE,
                          !.cycle_label = None],
        !.self = IF w.app.plant_growing THEN set_current_age(@, 0) ELSE @]

reset(w, button_press) ==
    [w EXCEPT
        !.app = [@ EXCEPT !.study_timer = FALSE, !.timeout = FALSE,
                          !.pause_text = "Pause",
                          !.study_button = TRUE, !.break_button = TRUE,
                          !.pause_button = FALSE, !.reset_button = FALSE,
                          !.cycles = IF button_press THEN 1 ELSE @,
                          !.cycle_label = None],
        !.self = IF w.app.plant_growing THEN set_current_age(@, 0) ELSE @]

update_cycles_label(a) ==
    IF a.initial_cycles # 1 /\ ~Val(a.study_done)
      THEN [a EXCEPT !.cycle_label =
                Some(<<a.initial_cycles - a.cycles + 1, a.initial_cycles>>)]
      ELSE a

\* self.total_time of start: the spin box's minutes * 60 + 0.99 seconds
TotalTime(do_break, in) ==
    (IF do_break THEN in.break ELSE in.study) * 6000 + 99

\* the maxAge start passes as it would be without the min(1, ...)
StartMaxAge_Uncapped(total_time) ==
    Div(Div(total_time * 10, 60), MAX_PLANT_AGE)

\* the maxAge start passes: min(1, (self.total_time / 60) / self.MAX_PLANT_AGE)
StartMaxAge(total_time) ==
    Min(1000, Div(Div(total_time * 10, 60), MAX_PLANT_AGE))

\* the part of start that assigns attributes of the window and restarts
\* the timer
StartTimer(a, do_break, cycled_call, in) ==
    update_cycles_label(
        [a EXCEPT !.study_button = do_break, !.break_button = FALSE,
                  !.reset_button = TRUE, !.pause_button = TRUE,
                  !.pause_text = "Pause",
                  !.study_done = Some(do_break),
                  !.cycles = IF ~cycled_call /\ ~do_break THEN in.cycles ELSE @,
                  !.initial_cycles =
                      IF ~cycled_call /\ ~do_break THEN in.cycles ELSE @,
                  !.total_time = Some(TotalTime(do_break, in)),
                  !.ending_time = Some(TotalTime(do_break, in)),
                  !.plant_growing = IF do_break THEN @ ELSE in.chosen # NoPlant,
                  !.study_timer = TRUE, !.timeout = FALSE])

\* the part of start that makes the plant: a fresh instance of the chosen
\* class, set_max_age, set_current_age(0)
StartPlant(in) ==
    set_current_age(
        set_max_age(in.chosen, NewPlant,
                    StartMaxAge(TotalTime(FALSE, in)), in.seed),
        0)

\* Florodoro.start(do_break, cycled_call)
start(w, do_break, cycled_call, in) ==
    [w EXCEPT
        !.app = StartTimer(@, do_break, cycled_call, in),
        !.cls = IF ~do_break /\ in.chosen # NoPlant THEN in.chosen ELSE @,
        !.self = IF ~do_break /\ in.chosen # NoPlant THEN StartPlant(in) ELSE @]

start_break(w, in) == start(w, TRUE, FALSE, in)

\* toggle_pause as it would be if resuming left ending_time alone
toggle_pause_KeepsEnd(w) ==
    IF w.app.study_timer
      THEN [w EXCEPT !.app = [@ EXCEPT !.study_timer = FALSE, !.timeout = FALSE,
                                       !.pause_text = "Continue",
                                       !.pause_time = Some(0)]]
      ELSE [w EXCEPT !.app = [@ EXCEPT !.study_timer = TRUE, !.timeout = FALSE,
                                       !.pause_text = "Pause"]]

\* Florodoro.toggle_pause: pause_time = now on pausing; on resuming
\* ending_time += now - pause_time
toggle_pause(w) ==
    IF w.app.study_timer
      THEN [w EXCEPT !.app = [@ EXCEPT !.study_timer = FALSE, !.timeout = FALSE,
                                       !.pause_text = "Continue",
                                       !.pause_time = Some(0)]]
      ELSE [w EXCEPT !.app = [@ EXCEPT !.ending_time =
                                           Some(Val(@) + (0 - Val(w.app.pause_time))),
                                       !.study_timer = TRUE, !.timeout = FALSE,
                                       !.pause_text = "Pause"]]

\* Florodoro.keyPressEvent for the Escape key: in debug mode a fresh plant
\* at maxAge 1 and age 1 replaces the one on the canvas
keyPressEvent(w, in) ==
    IF w.app.DEBUG /\ in.chosen # NoPlant
      THEN [w EXCEPT !.cls = in.chosen,
                     !.self = set_current_age(
                                  set_max_age(in.chosen, NewPlant, 1000, in.seed),
                                  1000)]
      ELSE w

\* Canvas.save returned f (what self.object.save wrote and drew)
Saved(w, f) ==
    [w EXCEPT !.self = f.drawn.self, !.painted = f.drawn.painted, !.svg = f.svg]

\* Canvas.save(path): self.object.save(path, self.width(), self.height())
Canvas_save(w, size) == Saved(w, save(w.cls, w.self, size[1], size[2]))

\* the first lines of decrease_remaining_time: in debug mode the end comes
\* 30 seconds nearer with every timeout
Hastened(a) ==
    IF a.DEBUG THEN [a EXCEPT !.ending_time = Some(Val(@) - 3000)] ELSE a

\* leftover_time as decrease_remaining_time computes it for the window a
leftover_time(a) == Val(Hastened(a).ending_time)

\* the age the plant is grown to as it would be from leftover / total alone
GrownAge_Remaining(leftover, total_time) == Div(leftover * 1000, total_time)

\* the age the plant is grown to: 1 - (leftover_time / self.total_time),
\* cut to thousandths
GrownAge(leftover, total_time) == Div((total_time - leftover) * 1000, total_time)

\* decrease_remaining_time with time left: the plant grows while studying
Grows(w) ==
    IF ~Val(w.app.study_done) /\ w.app.plant_growing
      THEN [w EXCEPT !.self = set_current_age(@,
                GrownAge(Val(w.app.ending_time), Val(w.app.total_time)))]
      ELSE w

\* the break's end as it would be if the cycle counter were left alone
BreakEnds_KeepsCounting(w, in) ==
    IF w.app.cycles # 1
      THEN [start(w, FALSE, TRUE, in) EXCEPT !.app = update_cycles_label(@)]
      ELSE [w EXCEPT !.app.cycle_label = None]

\* decrease_remaining_time when a break has run out, after its
\* reset(button_press=False) returned w
BreakEnds(w, in) ==
    IF w.app.cycles # 1
      THEN [start([w EXCEPT !.app.cycles = @ - 1], FALSE, TRUE, in)
               EXCEPT !.app = update_cycles_label(@)]
      ELSE [w EXCEPT !.app.cycle_label = None]

\* the study's end as it would be if the plant were saved whether or not
\* one is growing (a canvas without a drawable writes an empty file)
StudyEnds_SavesAlways(w, in) ==
    IF w.cls # NoPlant
      THEN Canvas_save(w, in.size)
      ELSE [w EXCEPT !.svg = Some([size |-> in.size, viewBox |-> <<0, 0>> \o in.size])]

\* decrease_remaining_time when the study time has run out, after its
\* start_break() returned w
StudyEnds(w, in) ==
    IF w.app.plant_growing THEN Canvas_save(w, in.size) ELSE w

\* the handler after its first lines, leftover being leftover_time
Decreased(w, leftover, in) ==
    IF leftover <= 0
      THEN IF Val(w.app.study_done)
             THEN BreakEnds(reset(w, FALSE), in)
             ELSE StudyEnds(start_break(w, in), in)
      ELSE Grows(w)

\* Florodoro.decrease_remaining_time, the slot of study_timer.timeout
decrease_remaining_time(w, in) ==
    Decreased([w EXCEPT !.app = Hastened(@)], leftover_time(w.app), in)

\* ------------------------------------- the application's state machine

\* the window, the canvas and the plant as they are now
Now == World(app, cls, self)

\* pause_time is read by nothing but the toggle_pause that resumes: the
\* state keeps it while the timer is paused only
Kept(a) ==
    IF ~a.study_timer /\ a.pause_button THEN a ELSE [a EXCEPT !.pause_time = None]

\* the handler `c` returned w
Handles(w, c) ==
    /\ app' = Kept(w.app)
    /\ cls' = w.cls
    /\ self' = w.self
    /\ painted' = w.painted
    /\ svg' = w.svg
    /\ call' = c

\* an input of which the handler reads nothing
NoInput == Input(45, 15, 1, NoPlant, 0, <<200, 200>>)

\* the inputs start(do_break=False) reads: the study spin box, the check
\* boxes and the random generator (and the Cycles spin box, given as spins)
StudyInputs(spins) ==
    { Input(study, 15, spin, chosen, seed, <<200, 200>>) :
        study \in StudyMinutes, spin \in spins,
        chosen \in Choices, seed \in StartSeeds }

\* the inputs the end of a study reads: the break spin box, the canvas size
BreakInputs ==
    { Input(45, break, 1, NoPlant, 0, size) :
        break \in BreakMinutes, size \in CanvasSizes }

\* the inputs decrease_remaining_time reads in the window a
Reads(a) ==
    IF leftover_time(a) > 0 THEN {NoInput}
    ELSE IF Val(a.study_done) THEN StudyInputs({1})
    ELSE BreakInputs

\* the timer is neither running nor paused
Idle == ~app.study_timer /\ ~app.pause_button

\* the timer is paused
Paused == ~app.study_timer /\ app.pause_button

\* Florodoro(): the window after __init__, which ends with reset()
HostInit ==
    /\ app \in { reset(World(Florodoro(debug), NoPlant, NewPlant), TRUE).app :
                   debug \in BOOLEAN }
    /\ cls = NoPlant
    /\ self = NewPlant
    /\ call = Call("__init__", <<>>, None, FALSE)
    /\ painted = <<>>
    /\ svg = None
    /\ phases = <<>>

\* the Study button is clicked: start()
PressStudy ==
    /\ app.study_button
    /\ ~app.timeout
    /\ \E in \in StudyInputs(1 .. MaxCycles) :
          Handles(start(Now, FALSE, FALSE, in),
                  Call("start", <<in.study, in.cycles>>, Some(in.seed), FALSE))
    /\ phases' = <<"study">>

\* the Break button is clicked: start_break()
PressBreak ==
    /\ app.break_button
    /\ ~app.timeout
    /\ \E in \in BreakInputs :
          Handles(start_break(Now, in),
                  Call("start_break", <<in.break>>, None, FALSE))
    /\ phases' = <<"break">>

\* the Pause / Continue button is clicked: toggle_pause()
PressPause ==
    /\ app.pause_button
    /\ ~app.timeout
    /\ Handles(toggle_pause(Now), Call("toggle_pause", <<>>, None, FALSE))
    /\ UNCHANGED phases

\* the Reset button is clicked: press_reset()
PressReset ==
    /\ app.reset_button
    /\ ~app.timeout
    /\ Handles(reset(Now, TRUE), Call("press_reset", <<>>, None, FALSE))
    /\ phases' = <<>>

\* the Escape key is pressed in debug mode (keyPressEvent does nothing
\* otherwise)
PressEscape ==
    /\ app.DEBUG
    /\ ~app.timeout
    /\ \E in \in StudyInputs({1}) :
          Handles(keyPressEvent(Now, in),
                  Call("keyPressEvent", <<>>, Some(in.seed), FALSE))
    /\ UNCHANGED phases

\* d hundredths of a second pass while the timer runs (its interval runs
\* out) or while it is paused
Elapse(d) ==
    /\ \/ app.study_timer /\ ~app.timeout
       \/ Paused /\ d - Val(app.pause_time) <= MaxPause * 6000
    /\ app' = [app EXCEPT
                  !.ending_time = Some(Val(@) - d),
                  !.pause_time = IF @ = None THEN @ ELSE Some(Val(@) - d),
                  !.timeout = app.study_timer]
    /\ call' = Call("elapse", <<d>>, None, FALSE)
    /\ painted' = <<>>
    /\ svg' = None
    /\ UNCHANGED <<cls, self, phases>>

\* the phases begun since a button was last pressed, after a timeout that
\* found leftover time left and returned the window a
Begun(leftover, a) ==
    IF leftover <= 0 /\ a.study_timer
      THEN Append(phases, IF Val(a.study_done) THEN "break" ELSE "study")
      ELSE phases

\* study_timer.timeout: decrease_remaining_time(); the timer's next
\* interval begins
Timeout ==
    /\ app.study_timer
    /\ app.timeout
    /\ \E in \in Reads(app) :
          /\ Handles([decrease_remaining_time(Now, in) EXCEPT !.app.timeout = FALSE],
                     Call("decrease_remaining_time", <<leftover_time(app)>>,
                          IF leftover_time(app) <= 0 /\ Val(app.study_done)
                            THEN Some(in.seed) ELSE None,
                          FALSE))
          /\ phases' = Begun(leftover_time(app), decrease_remaining_time(Now, in).app)

HostNext ==
    \/ PressStudy
    \/ PressBreak
    \/ PressPause
    \/ PressReset
    \/ PressEscape
    \/ \E d \in Steps : Elapse(d)
    \/ Timeout

\* the application with its user
HostSpec == HostInit /\ [][HostNext]_vars

\* the Study button is clicked for the first time
FirstStudy == app.total_time = None /\ PressStudy

RunNext ==
    \/ FirstStudy
    \/ \E d \in Steps : Elapse(d)
    \/ Timeout

\* the running timer's interval has elapsed and its timeout signal waits
\* for the event loop
Due == app.study_timer /\ app.timeout

\* the application with a user who clicks Study at most once and then
\* leaves it alone. Time goes on while the timer runs, and the event loop
\* delivers a due timeout: WF_vars(Timeout). Timeout is enabled exactly
\* when Due holds and every Timeout step leaves Due false, so with
\* [][RunNext]_vars that condition is []<>~Due, the form it is given in
RunSpec ==
    /\ HostInit
    /\ [][RunNext]_vars
    /\ WF_vars(\E d \in Steps : Elapse(d))
    /\ []<>~Due

\* ------------------------------------------------------------- claims

\* the last call was draw(painter, width, height)
DrawCalled == call.name = "draw"

\* the last call ran generate() to its end
Generated == call.name \in {"set_max_age", "generate"} /\ ~call.raised

InRange(v) == 0 <= v /\ v <= 1000

\* how many of the calls in ops are `name`
Count(ops, name) == Cardinality({i \in DOMAIN ops : ops[i].op = name})

IsPolygon(o) == o.op = "drawPolygon"

\* the drawPolygon calls of ops, in order
Polygons(ops) == SelectSeq(ops, IsPolygon)

RECURSIVE ShapeBrushes(_, _, _)
\* the brush each shape (polygon, ellipse, path) of ops is filled with, in
\* the order the shapes are drawn; brush is the painter's brush, stack the
\* brushes put aside by save()
ShapeBrushes(ops, brush, stack) ==
    IF ops = <<>> THEN <<>>
    ELSE LET o == Head(ops)
         IN  CASE o.op = "setBrush" -> ShapeBrushes(Tail(ops), o.a, stack)
               [] o.op = "save" -> ShapeBrushes(Tail(ops), brush, <<brush>> \o stack)
               [] o.op = "restore" -> ShapeBrushes(Tail(ops), Head(stack), Tail(stack))
               [] o.op \in {"drawPolygon", "drawEllipse(QPointF)",
                            "drawEllipse(QRectF)", "drawPath"} ->
                      <<brush>> \o ShapeBrushes(Tail(ops), brush, stack)
               [] OTHER -> ShapeBrushes(Tail(ops), brush, stack)

Repeat(v, n) == [i \in 1 .. n |-> v]

\* C1: when maxAge was never set, draw makes no call on the painter at all
\* and does not raise, whatever the age and the canvas size.
C1_DrawUnsetIsNoOp ==
    (DrawCalled /\ self.maxAge = None) => (painted = <<>> /\ ~call.raised)

C1_Witness ==
    /\ DrawCalled
    /\ self.maxAge = None
    /\ self.age = 1000
    /\ call.args = <<200, 800>>

\* C2 as stated: a draw with maxAge set leaves every attribute of the
\* instance as it was.
C2_DrawLeavesEveryAttribute ==
    [][(call'.name = "draw" /\ self.maxAge # None) => self' = self]_vars

\* C2 as amended: a draw with maxAge set leaves age, maxAge, the
\* coefficients and every frozen generated parameter as they were; the tree
\* variants write no attribute at all, and the only attributes a
\* CircularFlower writes are x and y (the head position).
C2_DrawWritesOnlyHeadPosition ==
    [][(call'.name = "draw" /\ self.maxAge # None) =>
          /\ self' = [self EXCEPT !.x = self'.x, !.y = self'.y]
          /\ IsTree(cls) => self' = self]_vars

C2_Witness ==
    /\ DrawCalled
    /\ cls = "CircularFlower"
    /\ self.age = 250
    /\ self.x # None
    /\ self.x # Some(0)

\* C3: a value outside [0, 1] given to set_current_age or set_max_age is
\* not stored, and a draw or save with width <= 0 or height <= 0 makes no
\* call on the painter (either raises or refuses).
C3_InvalidInputRejected ==
    /\ (call.name = "set_current_age" /\ ~InRange(call.args[1]))
          => (call.raised \/ self.age # call.args[1])
    /\ (call.name = "set_max_age" /\ ~InRange(call.args[1]))
          => (call.raised \/ self.maxAge # Some(call.args[1]))
    /\ (call.name \in {"draw", "save"} /\ (call.args[1] <= 0 \/ call.args[2] <= 0))
          => (call.raised \/ painted = <<>>)

\* C4: set_current_age changes the age field and nothing else of the
\* instance, and draws no random value.
C4_SetCurrentAgeWritesOnlyAge ==
    [][call'.name = "set_current_age" =>
          /\ self' = [self EXCEPT !.age = call'.args[1]]
          /\ call'.rng = None]_vars

C4_Witness ==
    /\ call.name = "set_current_age"
    /\ cls = "CircularFlower"
    /\ self.maxAge # None
    /\ self.x # None
    /\ self.age = 250

\* C5: every set_max_age(v) stores maxAge = v, sets age_coefficient to
\* (v + 1) / 2 and leaves the instance as one run of the variant's generate
\* from the generator's state leaves it, also when v is the stored value.
C5_SetMaxAgeRegenerates ==
    [][call'.name = "set_max_age" =>
          /\ self'.maxAge = Some(call'.args[1])
          /\ self'.age_coefficient = Some((call'.args[1] + 1000) \div 2)
          /\ call'.rng # None
          /\ self' = generate(cls, [self EXCEPT !.maxAge = Some(call'.args[1])],
                              Val(call'.rng))]_vars

C5_Witness ==
    /\ call.name = "set_max_age"
    /\ call.args = <<500>>
    /\ self.age_coefficient = Some(750)
    /\ self.branches # None

\* C6: a draw that follows a draw with the same width and height (the age,
\* coefficients and frozen parameters are then the same) makes the same
\* calls with the same arguments; draw takes no random value.
C6_DrawIdempotent ==
    [][(call.name = "draw" /\ call'.name = "draw" /\ call'.args = call.args)
          => (painted' = painted /\ call'.rng = None)]_vars

C6_Witness ==
    /\ DrawCalled
    /\ cls = "CircularFlower"
    /\ self.maxAge = Some(1000)
    /\ self.age = 1000
    /\ call.args = <<200, 200>>
    /\ Count(painted, "drawPath") > 3

\* C7: after CircularFlower.generate the round and the dip pellet come with
\* exactly 5 pellets, whatever count was sampled, and every silhouette comes
\* with 5 to 7 pellets.
C7_PelletCount ==
    (cls = "CircularFlower" /\ self.pellet_drawing_function # None) =>
        /\ Val(self.pellet_drawing_function) \in {"round_pellet", "dip_pellet"}
              => self.number_of_pellets = Some(5)
        /\ Val(self.number_of_pellets) \in 5 .. 7

C7_Witness ==
    /\ cls = "CircularFlower"
    /\ Generated
    /\ Val(self.pellet_drawing_function) \in {"round_pellet", "dip_pellet"}
    /\ SampledPellets(Val(call.rng)) = 7

\* C8: a generated OrangeTree has exactly 2 branches and 3 fruit entries,
\* and one draw of it emits exactly 3 circles and exactly 3 triangles.
C8_OrangeTreeShapes ==
    (cls = "OrangeTree" /\ self.maxAge # None) =>
        /\ Len(Val(self.branches)) = 2
        /\ Len(Val(self.branch_circles)) = 3
        /\ DrawCalled =>
              /\ Count(painted, "drawEllipse(QPointF)") = 3
              /\ Count(painted, "drawPolygon") = 3

C8_Witness ==
    /\ cls = "OrangeTree"
    /\ DrawCalled
    /\ self.maxAge = Some(2000)
    /\ self.age = 1000
    /\ Count(painted, "drawEllipse(QPointF)") = 3

\* C9: in one draw of a tree variant the variant's own layer comes before
\* its parent's: the 3 fruits of an OrangeTree before the trunk and the
\* branches, the canopy of a GreenTree before them, and for a
\* DoubleGreenTree the second (narrower) canopy, then the first, then the
\* trunk and the branches.
C9_OwnLayerFirst ==
    (DrawCalled /\ self.maxAge # None) =>
        /\ cls = "OrangeTree" =>
              ShapeBrushes(painted, None, <<>>)
                  = Repeat(orange_color, 3) \o Repeat(brown_color, 3)
        /\ cls = "GreenTree" =>
              ShapeBrushes(painted, None, <<>>)
                  = <<green_color>>
                    \o Repeat(brown_color, 1 + Len(Val(self.branches)))
        /\ cls = "DoubleGreenTree" =>
              /\ ShapeBrushes(painted, None, <<>>)
                    = <<green_color, green_color>>
                      \o Repeat(brown_color, 1 + Len(Val(self.branches)))
              /\ Abs(Polygons(painted)[1].a[3]) <= Abs(Polygons(painted)[2].a[3])
              /\ smoothen_curve(self.age) # 0 =>
                    Abs(Polygons(painted)[1].a[3]) < Abs(Polygons(painted)[2].a[3])

C9_Witness ==
    /\ DrawCalled
    /\ cls = "DoubleGreenTree"
    /\ self.maxAge = Some(1000)
    /\ self.age = 250
    /\ Len(Val(self.branches)) = 2

\* C10: for maxAge in [0, 1], Tree.generate (run for Tree, GreenTree and
\* DoubleGreenTree) leaves 1 or 2 branches, never 0 and never more than 2.
C10_OneOrTwoBranches ==
    (cls \in {"Tree", "GreenTree", "DoubleGreenTree"}
        /\ self.maxAge # None /\ InRange(Val(self.maxAge)))
    => Len(Val(self.branches)) \in {1, 2}

C10_Witness ==
    /\ cls = "Tree"
    /\ Generated
    /\ self.maxAge = Some(1000)
    /\ Len(Val(self.branches)) = 2

\* every number in args is 0
AllZero(args) == \A i \in DOMAIN args : args[i] = 0

\* the call o has no extent: a polygon, curve, ellipse or translation with
\* every coordinate, radius, width and height 0, a pen of width 0; the
\* rotations, brushes and save/restore have no extent to speak of
ZeroExtent(o) ==
    CASE o.op \in {"drawPolygon", "quadTo", "cubicTo", "translate",
                   "drawEllipse(QPointF)", "drawEllipse(QRectF)"} -> AllZero(o.a)
      [] o.op = "setPen" /\ Len(o.a) = 4 -> o.a[4] = 0
      [] OTHER -> TRUE

\* C11: with maxAge in [0, 1] set and the age 0, a draw on a canvas of
\* positive width and height emits, after the translate that puts the
\* origin at the bottom centre of the canvas, only zero-extent geometry:
\* every vertex, control point, centre and translation is the origin, every
\* radius, width and height is 0, and the stem pen has width 0.
C11_ZeroExtentAtAgeZero ==
    (DrawCalled /\ self.maxAge # None /\ InRange(Val(self.maxAge))
        /\ self.age = 0 /\ call.args[1] > 0 /\ call.args[2] > 0)
    => \A i \in 2 .. Len(painted) : ZeroExtent(painted[i])

C11_Witness ==
    /\ DrawCalled
    /\ cls = "DoubleGreenTree"
    /\ self.maxAge = Some(1000)
    /\ self.age = 0
    /\ call.args = <<200, 800>>
    /\ Count(painted, "drawPolygon") = 2 + 1 + Len(Val(self.branches))

\* C12 as stated: a draw on a 200 x 800 canvas that follows a draw on a
\* 200 x 200 canvas (the plant is the same) makes the same calls with the
\* same arguments, the translate that places the origin included, so the
\* shapes land on the same canvas coordinates.
C12_SameCanvasCoordinates ==
    [][(call.name = "draw" /\ call'.name = "draw" /\ self.maxAge # None
          /\ call.args = <<200, 200>> /\ call'.args = <<200, 800>>)
       => painted' = painted]_vars

\* C12 as amended: two successive draws of the same plant on canvases with
\* the same min(width, height) make the same calls with the same arguments
\* after the first one, and the first one is the translate to
\* (width / 2, height), the bottom centre of the canvas drawn on.
C12_SameShapesFromBottomCentre ==
    [][(call.name = "draw" /\ call'.name = "draw" /\ self.maxAge # None
          /\ Min(call.args[1], call.args[2]) = Min(call'.args[1], call'.args[2]))
       => /\ Tail(painted') = Tail(painted)
          /\ Head(painted') =
                Op("translate", <<Div(call'.args[1] * 1000, 2), call'.args[2] * 1000>>)
          /\ Head(painted) =
                Op("translate", <<Div(call.args[1] * 1000, 2), call.args[2] * 1000>>)]_vars

C12_Witness ==
    /\ DrawCalled
    /\ cls = "OrangeTree"
    /\ self.maxAge = Some(1000)
    /\ self.age = 1000
    /\ call.args = <<200, 800>>
    /\ Head(painted).a = <<100000, 800000>>
    /\ Tail(painted) = Tail(draw(cls, self, 200, 200).painted)
    /\ Count(painted, "drawEllipse(QPointF)") = 3

\* the time left on the countdown of the window a, the time spent paused
\* so far not counted
Remaining(a) ==
    Val(a.ending_time) - (IF a.pause_time = None THEN 0 ELSE Val(a.pause_time))

\* a study is under way (running or paused) with a plant growing, and no
\* timeout is due
Studying ==
    /\ app.study_done = Some(FALSE)
    /\ app.study_timer \/ Paused
    /\ app.plant_growing
    /\ ~app.timeout

\* the step is a timeout that finds time left in a study with a plant
\* growing: the one that sets the plant's age
GrowthTick ==
    /\ call'.name = "decrease_remaining_time"
    /\ leftover_time(app) > 0
    /\ app.study_done = Some(FALSE)
    /\ app.plant_growing

\* C13 as stated: while the timer is paused no timeout is handled and the
\* age of the plant on the canvas does not change; pausing, staying paused
\* and resuming leave the time left on the countdown as it was; and so the
\* age is always the one the time left gives, GrownAge(time left), however
\* long the pauses were: it neither falls back nor jumps ahead.
C13_PauseFreezesGrowth ==
    [][/\ Paused => call'.name # "decrease_remaining_time"
       /\ (Paused /\ Paused') => self'.age = self.age
       /\ (call'.name = "toggle_pause" \/ (Paused /\ Paused'))
             => /\ Remaining(app') = Remaining(app)
                /\ app'.total_time = app.total_time
       /\ call'.name = "toggle_pause" => self'.age = self.age
       /\ Studying =>
             self.age = GrownAge(Remaining(app), Val(app.total_time))]_vars

\* C13 as amended: the same, the two statements about the age for an
\* application that is not in debug mode (where the Escape key puts a fresh
\* plant of age 1 on the canvas, also while paused).
C13_PauseFreezesTimedGrowth ==
    [][/\ Paused => call'.name # "decrease_remaining_time"
       /\ (Paused /\ Paused' /\ ~app.DEBUG) => self'.age = self.age
       /\ (call'.name = "toggle_pause" \/ (Paused /\ Paused'))
             => /\ Remaining(app') = Remaining(app)
                /\ app'.total_time = app.total_time
       /\ call'.name = "toggle_pause" => self'.age = self.age
       /\ (Studying /\ ~app.DEBUG) =>
             self.age = GrownAge(Remaining(app), Val(app.total_time))]_vars

C13_Witness ==
    /\ call.name = "toggle_pause"
    /\ app.study_timer
    /\ ~app.DEBUG
    /\ Studying
    /\ self.age = 333
    /\ Val(app.ending_time) = 540099

\* C14: a step calls canvas.save if and only if it is the timeout that finds a
\* study's time run out while a plant is growing, and then it saves once,
\* the plant the canvas holds, drawn; the end of a break, pausing, resuming,
\* resetting, starting and the end of a study without a plant write none.
C14_SavedOncePerStudy ==
    [][/\ svg' # None <=>
             /\ call'.name = "decrease_remaining_time"
             /\ leftover_time(app) <= 0
             /\ app.study_done = Some(FALSE)
             /\ app.plant_growing
       /\ svg' # None =>
             /\ cls # NoPlant
             /\ cls' = cls
             /\ self.maxAge # None
             /\ painted' = draw(cls, self, Val(svg').size[1], Val(svg').size[2]).painted
             /\ painted' # <<>>
             /\ Val(app'.study_done)]_vars

C14_Witness ==
    /\ svg # None
    /\ call.name = "decrease_remaining_time"
    /\ cls = "CircularFlower"
    /\ self.age = 999
    /\ phases = <<"study", "break", "study", "break">>

\* C15: whenever the timer is idle the remaining cycle count is 1; right
\* after the Reset button it is idle with the count 1; and a run begun with
\* the Break button never begins another phase: its break ends idle.
C15_IdleMeansOneCycle ==
    /\ Idle => app.cycles = 1
    /\ call.name = "press_reset" => (Idle /\ app.cycles = 1)
    /\ (phases # <<>> /\ phases[1] = "break") =>
          /\ phases = <<"break">>
          /\ app.cycles = 1
          /\ (call.name = "decrease_remaining_time" /\ call.args[1] <= 0) => Idle

C15_Witness ==
    /\ Idle
    /\ phases = <<"break">>
    /\ call.name = "decrease_remaining_time"
    /\ app.initial_cycles = 2
    /\ app.cycles = 1

\* the phases of n cycles: study, break, study, break, ...
Cycled(n) == [i \in 1 .. 2 * n |-> IF i % 2 = 1 THEN "study" ELSE "break"]

\* C16: after Study is clicked with the Cycles setting N and the timer is
\* left alone, the phases begun are study, break, study, break, ... in this
\* order; the cycle counter is N less the breaks that ended in a new study,
\* never below 1; the timer comes to a stop, idle, and then exactly N
\* studies and N breaks have been begun and the counter is 1.
C16_CyclesRunToIdle ==
    /\ [](/\ 1 <= app.cycles /\ app.cycles <= app.initial_cycles
          /\ Len(phases) <= 2 * app.initial_cycles
          /\ phases = SubSeq(Cycled(app.initial_cycles), 1, Len(phases))
          /\ phases # <<>> =>
                app.cycles = app.initial_cycles - ((Len(phases) + 1) \div 2 - 1)
          /\ (Idle /\ phases # <<>>) =>
                (phases = Cycled(app.initial_cycles) /\ app.cycles = 1))
    /\ (phases # <<>>) ~> [](Idle /\ phases = Cycled(app.initial_cycles))

C16_Witness ==
    /\ Idle
    /\ app.initial_cycles = 2
    /\ phases = <<"study", "break", "study", "break">>
    /\ app.cycles = 1

====
